---- MODULE Spec2Model ----
(***************************************************************************)
(* Aqua-Chroma: the scheduled acquisition cycle, the per-timestamp         *)
(* orchestrator (night gate, tile download, image pipeline, upsert) and    *)
(* the result store, as a state machine.                                   *)
(*                                                                         *)
(* Two callers run run_analysis_and_persist: the scheduler's job (a worker *)
(* thread, one cycle at a time) and the debug endpoint.  They share only   *)
(* the store, so a run is cut at its two store accesses: the lookup (which *)
(* closes the purely local part of the run) and the commit.                *)
(***************************************************************************)
EXTENDS Integers, Sequences, FiniteSets, Bags, TLC

VARIABLES
    rows,    \* the analysis_results table: a bag of rows
    run,     \* per caller: the current (or last) run_analysis_and_persist
    cyc,     \* scheduled_analysis_task: the current (or last) cycle
    tiles,   \* download_stitched_image on a drawn tile grid (SpecDownload)
    call     \* a pure function applied to drawn inputs (SpecClassify, SpecMask)

vars == <<rows, run, cyc, tiles, call>>

(***************************************************************************)
(* Bounds of the model.                                                    *)
(***************************************************************************)
MaxList == 2        \* longest timestamp list a response carries
MaxGridRows == 2    \* largest tile grid: rows
MaxGridCols == 2    \* largest tile grid: columns

(***************************************************************************)
(* Timestamps (epoch seconds) with their UTC+8 wall-clock time:            *)
(*   1761951600  2025-11-01 07:00  the first daytime hour                  *)
(*   1761984000  2025-11-01 16:00  the first night hour                    *)
(***************************************************************************)
Timestamps == {1761951600, 1761984000}

None == << >>
Some(v) == <<v>>

Procs == {"sched", "debug"}

(***************************************************************************)
(* processor.is_night                                                      *)
(***************************************************************************)
NIGHT_START_HOUR == 16
NIGHT_END_HOUR == 7
TZ_OFFSET_HOURS == 8

LocalHour(timestamp) == ((timestamp + TZ_OFFSET_HOURS * 3600) \div 3600) % 24

is_night(timestamp) ==
    ~(NIGHT_END_HOUR <= LocalHour(timestamp)
        /\ LocalHour(timestamp) < NIGHT_START_HOUR)

(***************************************************************************)
(* downloader.download_stitched_image.  The tile grid is x_range * y_range;*)
(* a tile request ends in one of four ways.                                *)
(***************************************************************************)
TileOutcomes == {"ok", "non200", "neterr", "bad_image"}
    \* ok:        status 200 and a decodable image
    \* non200:    any other status code
    \* neterr:    requests.exceptions.RequestException (timeout, refused, ...)
    \* bad_image: status 200 whose body PIL cannot open

Grids == [rows : 1..MaxGridRows, cols : 1..MaxGridCols]
Slots(g) == (0..(g.rows - 1)) \X (0..(g.cols - 1))
Patterns(g) == [Slots(g) -> TileOutcomes]

\* The loop visits the slots row by row: enumerate(y_range), enumerate(x_range).
SlotAt(g, k) == <<(k - 1) \div g.cols, (k - 1) % g.cols>>
total_tiles(g) == g.rows * g.cols

\* Image.new('RGB', size) is black; downloaded_count = 0.
LoopStart(g) ==
    [stitched |-> [s \in Slots(g) |-> "black"],
     downloaded_count |-> 0,
     attempts |-> [s \in Slots(g) |-> 0],
     raised |-> FALSE]

\* One pass of the loop body for slot s.
FetchTileAbortOnFailure(st, s, outcome) ==
    LET tried == [st EXCEPT !.attempts[s] = @ + 1] IN
    IF outcome = "ok"
    THEN [tried EXCEPT !.stitched[s] = "tile",
                       !.downloaded_count = @ + 1]
    ELSE [tried EXCEPT !.raised = TRUE]

FetchTile(st, s, outcome) ==
    LET tried == [st EXCEPT !.attempts[s] = @ + 1] IN
    CASE outcome = "ok" ->
            [tried EXCEPT !.stitched[s] = "tile",
                          !.downloaded_count = @ + 1]
      [] outcome = "non200" -> [tried EXCEPT !.stitched[s] = "black"]
      [] outcome = "neterr" -> [tried EXCEPT !.stitched[s] = "black"]
      [] outcome = "bad_image" -> [tried EXCEPT !.raised = TRUE]

RECURSIVE TileLoop(_, _, _, _)
TileLoop(g, pattern, k, st) ==
    IF k > total_tiles(g) \/ st.raised
    THEN st
    ELSE TileLoop(g, pattern, k + 1,
                  FetchTile(st, SlotAt(g, k), pattern[SlotAt(g, k)]))

\* ret: "raised" (the exception leaves the function), "None", or "cropped".
download_stitched_image(g, pattern) ==
    LET st == TileLoop(g, pattern, 1, LoopStart(g)) IN
    [stitched |-> st.stitched,
     downloaded_count |-> st.downloaded_count,
     attempts |-> st.attempts,
     ret |-> IF st.raised THEN "raised"
             ELSE IF st.downloaded_count = 0 THEN "None"
             ELSE "cropped"]

\* What a call can hand back to the orchestrator, over all grids and patterns.
DownloadReturns ==
    UNION {{download_stitched_image(g, pattern).ret : pattern \in Patterns(g)}
           : g \in Grids}

(***************************************************************************)
(* processor.analyze_ocean_color: K-Means over the ocean pixels of the     *)
(* downsized image, labelling of the clusters, pixel counts, metrics.      *)
(*                                                                         *)
(* The function reads config.K_MEANS_CLUSTERS,                             *)
(* config.CLOUD_CLUSTER_SATURATION_MAX, config.CLOUD_CLUSTER_VALUE_MIN and  *)
(* config.BLUE_CLUSTER_HUE_THRESHOLD.  config.py defines none of them      *)
(* (RepoConfig): reading one raises AttributeError.  The configurations    *)
(* that define them (DefinedConfigs) take the bounds of the HSV boxes      *)
(* config.py does define.                                                  *)
(***************************************************************************)
MaxClusters == 3    \* largest K_MEANS_CLUSTERS drawn
MaxCount == 3       \* most pixels K-Means puts in one cluster

RepoConfig ==
    [K_MEANS_CLUSTERS |-> None,
     CLOUD_CLUSTER_SATURATION_MAX |-> None,
     CLOUD_CLUSTER_VALUE_MIN |-> None,
     BLUE_CLUSTER_HUE_THRESHOLD |-> None]

DefinedConfigs ==
    [K_MEANS_CLUSTERS : {Some(k) : k \in 1..MaxClusters},
     CLOUD_CLUSTER_SATURATION_MAX : {Some(40)},
     CLOUD_CLUSTER_VALUE_MIN : {Some(128)},
     BLUE_CLUSTER_HUE_THRESHOLD : {Some(85)}]

ClassifierConfigs == {RepoConfig} \cup DefinedConfigs

\* Cluster centers in OpenCV HSV (H in 0..179, S and V in 0..255): white
\* cloud, bright bluish haze, blue water, turbid water, black.
CenterPalette ==
    {<<0, 0, 255>>, <<110, 20, 230>>, <<110, 180, 150>>, <<25, 150, 160>>,
     <<0, 0, 0>>}

\* config.CLOUD_COVERAGE_THRESHOLD = 0.5; no function reads it.
CLOUD_COVERAGE_THRESHOLD == [num |-> 1, den |-> 2]

\* The status literals of the two early returns are Chinese:
\* "wu-shu-ju" stands for the literal meaning "no data" (line 24),
\* "xiang-su-bu-zu" for the literal meaning "not enough pixels" (line 34).
Ratio(num, den) == [num |-> num, den |-> den]
Zero == Ratio(0, 1)

EarlyReturn(status) ==
    [status |-> status, seaBlueness |-> Zero, cloudCoverage |-> Zero,
     bluePercentage |-> Zero, yellowPercentage |-> Zero]

RECURSIVE SumSeq(_)
SumSeq(seq) == IF seq = << >> THEN 0 ELSE Head(seq) + SumSeq(Tail(seq))

Black == <<0, 0, 0>>

\* What one call works on.  mask_nonzero: np.count_nonzero(ocean_mask) > 0;
\* black: every pixel of image_array is (0, 0, 0); counts[i+1]: the pixels
\* K-Means labels i; centers[i+1]: the center of cluster i.  The pixels of
\* the downsized image under the mask are SumSeq(counts): none when the
\* mask selects none.  The clusters of a black image have black centers.
ClassifierInputs(cfg) ==
    LET k == IF cfg.K_MEANS_CLUSTERS = None THEN 0
             ELSE cfg.K_MEANS_CLUSTERS[1]
    IN {inp \in [mask_nonzero : BOOLEAN,
                 black : BOOLEAN,
                 counts : [1..k -> 0..MaxCount],
                 centers : [1..k -> CenterPalette]] :
            /\ ~inp.mask_nonzero => SumSeq(inp.counts) = 0
            /\ inp.black => \A i \in 1..k : inp.centers[i] = Black}

\* for i in unassigned_labels[:]: if test(i): ...; break
\* The first label of the list that passes, -1 when none does.
FirstPassingNoBreak(labels, passes) ==
    LET found == {j \in 1..Len(labels) : passes[labels[j] + 1]}
    IN IF found = {} THEN -1
       ELSE labels[CHOOSE j \in found : \A m \in found : m <= j]

RECURSIVE FirstPassing(_, _)
FirstPassing(labels, passes) ==
    IF labels = << >> THEN -1
    ELSE IF passes[Head(labels) + 1] THEN Head(labels)
    ELSE FirstPassing(Tail(labels), passes)

\* unassigned_labels.remove(i)
Remove(labels, i) == SelectSeq(labels, LAMBDA l : l # i)

\* len(np.bincount(labels.flatten())): one more than the highest label that
\* has a pixel.
RECURSIVE BincountLen(_)
BincountLen(counts) ==
    IF counts = << >> THEN 0
    ELSE IF counts[Len(counts)] > 0 THEN Len(counts)
    ELSE BincountLen(SubSeq(counts, 1, Len(counts) - 1))

\* int(pixel_counts[label]) if label != -1 and label < len(pixel_counts)
PixelsOf(counts, label) ==
    IF label # -1 /\ label < BincountLen(counts) THEN counts[label + 1] ELSE 0

\* A call that ended: exc, the exception that leaves it ("-" when it
\* returns); ret, the returned dict; the labels and the pixel total it
\* worked with (-1 and 0 when it did not get there).
Classified(exc, ret, cloud_label, blue_label, yellow_label, total) ==
    [exc |-> exc, ret |-> ret, cloud_label |-> cloud_label,
     blue_label |-> blue_label, yellow_label |-> yellow_label,
     total |-> total]

analyze_ocean_color(cfg, inp) ==
    IF ~inp.mask_nonzero
    THEN Classified("-", EarlyReturn("wu-shu-ju"), -1, -1, -1, 0)
    ELSE IF cfg.K_MEANS_CLUSTERS = None
    THEN Classified("AttributeError", << >>, -1, -1, -1, 0)
    ELSE
    LET k == cfg.K_MEANS_CLUSTERS[1]
        total_ocean_pixels_small == SumSeq(inp.counts)
    IN
    IF total_ocean_pixels_small < k
    THEN Classified("-", EarlyReturn("xiang-su-bu-zu"), -1, -1, -1,
                    total_ocean_pixels_small)
    ELSE IF cfg.CLOUD_CLUSTER_SATURATION_MAX = None
            \/ cfg.CLOUD_CLUSTER_VALUE_MIN = None
            \/ cfg.BLUE_CLUSTER_HUE_THRESHOLD = None
    THEN Classified("AttributeError", << >>, -1, -1, -1,
                    total_ocean_pixels_small)
    ELSE
    LET unassigned0 == [i \in 1..k |-> i - 1]
        is_cloud == [i \in 1..k |->
            /\ inp.centers[i][2] < cfg.CLOUD_CLUSTER_SATURATION_MAX[1]
            /\ inp.centers[i][3] > cfg.CLOUD_CLUSTER_VALUE_MIN[1]]
        is_blue == [i \in 1..k |->
            inp.centers[i][1] > cfg.BLUE_CLUSTER_HUE_THRESHOLD[1]]
        cloud_label == FirstPassing(unassigned0, is_cloud)
        unassigned1 == Remove(unassigned0, cloud_label)
        blue_label == FirstPassing(unassigned1, is_blue)
        unassigned2 == Remove(unassigned1, blue_label)
        yellow_label == IF Len(unassigned2) = 1 THEN unassigned2[1] ELSE -1
        blue_pixels == PixelsOf(inp.counts, blue_label)
        yellow_pixels == PixelsOf(inp.counts, yellow_label)
        cloud_pixels == PixelsOf(inp.counts, cloud_label)
        total_water_pixels == blue_pixels + yellow_pixels
        sea_blueness_score ==
            IF total_water_pixels > 0
            THEN Ratio(blue_pixels, total_water_pixels) ELSE Zero
    IN Classified("-",
            [status |-> "completed",
             seaBlueness |-> sea_blueness_score,
             cloudCoverage |-> Ratio(cloud_pixels, total_ocean_pixels_small),
             bluePercentage |-> Ratio(blue_pixels, total_ocean_pixels_small),
             yellowPercentage |->
                Ratio(yellow_pixels, total_ocean_pixels_small),
             bluePixels |-> blue_pixels,
             yellowPixels |-> yellow_pixels,
             cloudPixels |-> cloud_pixels],
            cloud_label, blue_label, yellow_label, total_ocean_pixels_small)

(***************************************************************************)
(* geo_utils.latlon_to_final_pixel and the rasterization of                *)
(* geo_utils.create_ocean_mask, on a raster of RasterWidth * RasterHeight  *)
(* pixels over the bounds west 0, east 4, north 60, south 0 (degrees).     *)
(* Boundary rings are rectangles along meridians and parallels.            *)
(***************************************************************************)
MaxPolygons == 1    \* most polygons in a boundary document

RasterWidth == 2
RasterHeight == 3
Bounds == [west |-> 0, east |-> 4, north |-> 60, south |-> 0]

Lons == -1..5
Lats == {0, 20, 40, 60, 80}

\* mercator_y: log(tan(pi/4 + lat/2)), in 1/10000
mercator_y(lat_deg) ==
    CASE lat_deg = 0 -> 0
      [] lat_deg = 20 -> 3564
      [] lat_deg = 40 -> 7629
      [] lat_deg = 60 -> 13170
      [] lat_deg = 80 -> 24362

\* int(a / b): Python's int() truncates toward zero
IntOfQuotient(a, b) ==
    LET n == IF b < 0 THEN -a ELSE a
        d == IF b < 0 THEN -b ELSE b
    IN IF n >= 0 THEN n \div d ELSE -((-n) \div d)

latlon_to_final_pixel(lat, lon) ==
    LET pixel_x == IntOfQuotient((lon - Bounds.west) * RasterWidth,
                                 Bounds.east - Bounds.west)
        y_merc_north == mercator_y(Bounds.north)
        y_merc_south == mercator_y(Bounds.south)
        y_merc_lat == mercator_y(lat)
        pixel_y == IntOfQuotient((y_merc_lat - y_merc_north) * RasterHeight,
                                 y_merc_south - y_merc_north)
    IN <<pixel_x, pixel_y>>

Pixels == (0..(RasterWidth - 1)) \X (0..(RasterHeight - 1))

\* A ring: the rectangle between meridians w < e and parallels s < n, as
\* its closed list of [lon, lat] vertices.
Rect(w, e, s, n) == [w |-> w, e |-> e, s |-> s, n |-> n]
RingOf(r) ==
    <<<<r.w, r.s>>, <<r.e, r.s>>, <<r.e, r.n>>, <<r.w, r.n>>, <<r.w, r.s>>>>

Rects ==
    {r \in [w : Lons, e : Lons, s : Lats, n : Lats] : r.w < r.e /\ r.s < r.n}

\* A polygon: its outer ring and the inner rings (holes) strictly inside.
PolygonsDrawn ==
    {<<o>> : o \in Rects}
    \cup {p \in {<<o, h>> : o \in Rects, h \in Rects} :
            /\ p[1].w < p[2].w /\ p[2].e < p[1].e
            /\ p[1].s < p[2].s /\ p[2].n < p[1].n}

BoundaryDocuments ==
    UNION {[1..n -> PolygonsDrawn] : n \in 1..MaxPolygons}

\* cv2.fillPoly(mask, [pts], 0) for the vertices of a rectangle: every
\* pixel of the raster from the least to the greatest vertex coordinate,
\* both included.
FillPoly(mask, pts) ==
    LET xs == {pts[i][1] : i \in 1..Len(pts)}
        ys == {pts[i][2] : i \in 1..Len(pts)}
        inside(px) ==
            /\ \E a \in xs : a <= px[1]
            /\ \E b \in xs : px[1] <= b
            /\ \E a \in ys : a <= px[2]
            /\ \E b \in ys : px[2] <= b
    IN [px \in Pixels |-> IF inside(px) THEN 0 ELSE mask[px]]

\* for ring in polygon: project, fill
RECURSIVE FillRings(_, _)
FillRings(mask, rings) ==
    IF rings = << >> THEN mask
    ELSE LET ring == RingOf(Head(rings))
             pixel_coords ==
                [i \in 1..Len(ring) |->
                    latlon_to_final_pixel(ring[i][2], ring[i][1])]
         IN FillRings(FillPoly(mask, pixel_coords), Tail(rings))

\* for polygon in polygons
RECURSIVE FillPolygons(_, _)
FillPolygons(mask, polygons) ==
    IF polygons = << >> THEN mask
    ELSE FillPolygons(FillRings(mask, Head(polygons)), Tail(polygons))

\* create_ocean_mask once the boundary file is open
ocean_mask(polygons) ==
    FillPolygons([px \in Pixels |-> 255], polygons)

(***************************************************************************)
(* pipeline.process_image_pipeline.  A Python dict is a record; dict.get   *)
(* gives None for a missing key.                                           *)
(***************************************************************************)
Get(d, key) == IF key \in DOMAIN d THEN Some(d[key]) ELSE None
GetOr(d, key, default) == IF key \in DOMAIN d THEN d[key] ELSE default

\* def analyze_ocean_color(image_array, ocean_mask, output_dir)
AnalyzeOceanColorParams == {"image_array", "ocean_mask", "output_dir"}
\* the keywords process_image_pipeline passes to it
PipelineCallKeywords ==
    {"image_array", "ocean_mask", "output_dir", "hsv_ranges_override"}

\* What the environment does to one pipeline call.
PipelineEnvs ==
    [mkdir_ok : BOOLEAN,
     stage_fault : {"none", "upscale", "balance"},
     boundary_exists : BOOLEAN]

ErrorResultFailed == [status |-> "failed"]

ErrorResult == [status |-> "error"]

\* How a call of analyze_ocean_color ends under the repository's config.
ClassifierOutcomes ==
    {analyze_ocean_color(RepoConfig, inp)
        : inp \in ClassifierInputs(RepoConfig)}

\* geo_utils.create_ocean_mask: "FileNotFoundError" or a mask.
CreateOceanMaskUnchecked(boundary_exists) == "mask"

create_ocean_mask(boundary_exists) ==
    IF ~boundary_exists THEN "FileNotFoundError" ELSE "mask"

\* A pipeline call that ended at a stage:
\*   raised    the exception leaves the function
\*   reached   the last stage entered
\*   threw     the stage that raised ("-" when none did)
\*   boundary  what the mask stage found of the boundary file
\*   result    the returned dict
Ended(raised, reached, threw, boundary, result) ==
    [raised |-> raised, reached |-> reached, threw |-> threw,
     boundary |-> boundary, result |-> result]

BoundaryState(env) == IF env.boundary_exists THEN "present" ELSE "missing"

\* mkdir is outside the try; everything after it is inside.
process_image_pipeline(env, cls) ==
    IF ~env.mkdir_ok
    THEN Ended(TRUE, "mkdir", "mkdir", "unchecked", ErrorResult)
    ELSE IF env.stage_fault = "upscale"
    THEN Ended(FALSE, "upscale", "upscale", "unchecked", ErrorResult)
    ELSE IF env.stage_fault = "balance"
    THEN Ended(FALSE, "balance", "balance", "unchecked", ErrorResult)
    ELSE IF create_ocean_mask(env.boundary_exists) = "FileNotFoundError"
    THEN Ended(FALSE, "mask", "mask", BoundaryState(env), ErrorResult)
    ELSE IF ~(PipelineCallKeywords \subseteq AnalyzeOceanColorParams)
    THEN \* TypeError: unexpected keyword argument, caught like the rest
         Ended(FALSE, "classify", "classify", BoundaryState(env), ErrorResult)
    ELSE IF cls.exc # "-"
    THEN Ended(FALSE, "classify", "classify", BoundaryState(env), ErrorResult)
    ELSE Ended(FALSE, "classify", "-", BoundaryState(env), cls.ret)

(***************************************************************************)
(* The store: models.AnalysisResult rows, crud.*                           *)
(***************************************************************************)
FieldNames == {"timestamp", "status", "sea_blueness", "cloud_coverage"}

RowsFor(table, timestamp) ==
    {r \in BagToSet(table) : r.timestamp = timestamp}

\* number of rows of the table with this timestamp
RowCount(table, timestamp) ==
    BagCardinality([r \in RowsFor(table, timestamp) |-> table[r]])

NoRow == [timestamp |-> 0, status |-> "-",
          sea_blueness |-> None, cloud_coverage |-> None]

\* crud.get_result_by_timestamp: .first()
GetResultUnfiltered(table, timestamp) ==
    IF RowsFor(table, timestamp) = {} THEN NoRow
    ELSE CHOOSE r \in BagToSet(table) :
            \A o \in BagToSet(table) : o.timestamp <= r.timestamp

get_result_by_timestamp(table, timestamp) ==
    IF RowsFor(table, timestamp) = {} THEN NoRow
    ELSE CHOOSE r \in RowsFor(table, timestamp) : TRUE

\* crud.get_processed_timestamps
get_processed_timestamps(table) == {r.timestamp : r \in BagToSet(table)}

\* schemas.AnalysisResultCreate: model_dump() fills unset fields with their
\* default, None.
model_dump(data) ==
    [timestamp |-> data.timestamp, status |-> data.status,
     sea_blueness |-> data.sea_blueness,
     cloud_coverage |-> data.cloud_coverage]

\* the update branch: setattr for each key of model_dump(exclude_unset=True)
UpdatedRow(old, data) ==
    [f \in FieldNames |->
        IF f \in data.fields_set THEN model_dump(data)[f] ELSE old[f]]

\* models.AnalysisResult.timestamp: unique=True
UniqueNotDeclared(table, timestamp) == FALSE

UniqueViolation(table, timestamp) == RowsFor(table, timestamp) # {}

\* crud.upsert_analysis_result from db.commit() on; found is what the lookup
\* saw.  exc: "-" or the exception that leaves the function.
upsert_commit(table, data, found, store_ok) ==
    IF ~store_ok
    THEN [exc |-> "OperationalError", table |-> table, record |-> NoRow]
    ELSE IF found /\ RowsFor(table, data.timestamp) # {}
    THEN LET old == get_result_by_timestamp(table, data.timestamp)
             new == UpdatedRow(old, data)
         IN [exc |-> "-",
             table |-> (table (-) SetToBag({old})) (+) SetToBag({new}),
             record |-> new]
    ELSE IF UniqueViolation(table, data.timestamp)
    THEN [exc |-> "IntegrityError", table |-> table, record |-> NoRow]
    ELSE [exc |-> "-",
          table |-> table (+) SetToBag({model_dump(data)}),
          record |-> model_dump(data)]

(***************************************************************************)
(* main.run_analysis_and_persist up to the lookup of the upsert.           *)
(***************************************************************************)
NoData == [timestamp |-> 0, status |-> "-", sea_blueness |-> None,
           cloud_coverage |-> None, fields_set |-> {}]

\* analysis_data = {"timestamp": timestamp}; analysis_data["status"] = ...
StatusOnly(timestamp, status) ==
    [timestamp |-> timestamp, status |-> status, sea_blueness |-> None,
     cloud_coverage |-> None, fields_set |-> {"timestamp", "status"}]

\* analysis_data.update({...}) from the pipeline's dict
FromResultStatusOnly(timestamp, result) ==
    StatusOnly(timestamp, GetOr(result, "status", "error"))

FromResult(timestamp, result) ==
    [timestamp |-> timestamp,
     status |-> GetOr(result, "status", "error"),
     sea_blueness |-> Get(result, "seaBlueness"),
     cloud_coverage |-> Get(result, "cloudCoverage"),
     fields_set |-> FieldNames]

\* What a pipeline call can do, over the file system's and the classifier's
\* behaviour.
PipelineOutcomes ==
    {process_image_pipeline(env, cls)
        : env \in PipelineEnvs, cls \in ClassifierOutcomes}

\* dlret: what the download does if called; piped: what the pipeline does if
\* called.  Of the run: exc, the exception that leaves
\* run_analysis_and_persist, or "-"; dl, what the download returned
\* ("not_called" when it was not called); piped, how the pipeline call ended
\* (NotPiped when it was not called); data, analysis_data.
NotPiped == Ended(FALSE, "-", "-", "unchecked", ErrorResult)

Orchestrated(exc, dl, piped, data) ==
    [exc |-> exc, dl |-> dl, reached |-> piped.reached,
     threw |-> piped.threw, boundary |-> piped.boundary, data |-> data]

OrchestrateDownloadFirst(timestamp, dlret, piped) ==
    IF dlret = "raised"
    THEN Orchestrated("UnidentifiedImageError", dlret, NotPiped, NoData)
    ELSE IF is_night(timestamp)
    THEN Orchestrated("-", dlret, NotPiped, StatusOnly(timestamp, "night"))
    ELSE IF dlret = "None"
    THEN Orchestrated("-", dlret, NotPiped,
                      StatusOnly(timestamp, "download_failed"))
    ELSE IF piped.raised
    THEN Orchestrated("OSError", dlret, piped, NoData)
    ELSE Orchestrated("-", dlret, piped, FromResult(timestamp, piped.result))

Orchestrate(timestamp, dlret, piped) ==
    IF is_night(timestamp)
    THEN Orchestrated("-", "not_called", NotPiped,
                      StatusOnly(timestamp, "night"))
    ELSE IF dlret = "raised"
    THEN Orchestrated("UnidentifiedImageError", dlret, NotPiped, NoData)
    ELSE IF dlret = "None"
    THEN Orchestrated("-", dlret, NotPiped,
                      StatusOnly(timestamp, "download_failed"))
    ELSE IF piped.raised
    THEN Orchestrated("OSError", dlret, piped, NoData)
    ELSE Orchestrated("-", dlret, piped, FromResult(timestamp, piped.result))

\* Every way the local part of a run can go for a timestamp.
RunOutcomes ==
    [timestamp \in Timestamps |->
        {Orchestrate(timestamp, dlret, piped)
            : dlret \in DownloadReturns, piped \in PipelineOutcomes}]

IdleRun == [pc |-> "idle", ts |-> 0, via |-> "-", dl |-> "not_called",
            reached |-> "-", threw |-> "-", boundary |-> "unchecked",
            data |-> NoData, found |-> FALSE, outcome |-> "-", exc |-> "-"]

\* The run of caller p after its local part: raised, or at its commit.
Analyzed(p, timestamp, a) ==
    [pc |-> IF a.exc # "-" THEN "raised" ELSE "commit",
     ts |-> timestamp, via |-> "run", dl |-> a.dl, reached |-> a.reached,
     threw |-> a.threw, boundary |-> a.boundary, data |-> a.data,
     found |-> a.exc = "-" /\ get_result_by_timestamp(rows, timestamp) # NoRow,
     outcome |-> "-", exc |-> a.exc]

\* The run of caller p after db.commit(), db.refresh() and the response.
Committed(p, store_ok) ==
    LET u == upsert_commit(rows, run[p].data, run[p].found, store_ok) IN
    [run[p] EXCEPT !.pc = IF u.exc # "-" THEN "raised" ELSE "returned",
                   !.data = NoData, !.found = FALSE,
                   !.outcome = IF u.exc # "-" THEN "-" ELSE u.record.status,
                   !.exc = u.exc]

(***************************************************************************)
(* main.scheduled_analysis_task                                            *)
(***************************************************************************)
\* config.ACTIVE_CONFIG["timestamp_json_key"] of the default source
timestamp_json_key == Some("himawari")

Lists == UNION {[1..n -> Timestamps] : n \in 0..MaxList}

\* The answer of the timestamp-list endpoint:
\*   http_error     a 4xx/5xx status
\*   non_json       a body that is not JSON
\*   array          a bare JSON array
\*   object_no_key  a JSON object without the configured key
\*   object_scalar  a JSON object whose value under the key is not a list
\*   object_list    a JSON object whose value under the key is a list
ResponseKinds == {"http_error", "non_json", "array", "object_no_key",
                  "object_scalar", "object_list"}
\* list: the timestamps the body carries, if it carries any.  The bodies of
\* an error answer and of a bare array are never iterated: one timestamp at
\* most stands for them.
ShortLists == {l \in Lists : Len(l) <= 1}

TimestampResponses ==
    {[kind |-> k, list |-> << >>]
        : k \in {"non_json", "object_no_key", "object_scalar"}}
    \cup [kind : {"http_error", "array"}, list : ShortLists]
    \cup [kind : {"object_list"}, list : Lists]

\* From requests.get to all_timestamps: "exception", "not_list" or "list".
AllTimestampsNoStatusCheck(resp) ==
    IF resp.kind \in {"http_error", "object_list"}
    THEN [is |-> "list", list |-> resp.list]
    ELSE IF resp.kind \in {"non_json", "array"}
    THEN [is |-> "exception", list |-> << >>]
    ELSE [is |-> "not_list", list |-> << >>]

all_timestamps(resp) ==
    IF resp.kind = "http_error" THEN [is |-> "exception", list |-> << >>]
    ELSE IF resp.kind = "non_json" THEN [is |-> "exception", list |-> << >>]
    ELSE IF timestamp_json_key # None
    THEN \* data.get(timestamp_key)
         CASE resp.kind = "array" -> [is |-> "exception", list |-> << >>]
           [] resp.kind = "object_no_key" -> [is |-> "not_list", list |-> << >>]
           [] resp.kind = "object_scalar" -> [is |-> "not_list", list |-> << >>]
           [] resp.kind = "object_list" -> [is |-> "list", list |-> resp.list]
    ELSE \* data itself
         IF resp.kind = "array" THEN [is |-> "list", list |-> resp.list]
         ELSE [is |-> "not_list", list |-> << >>]

\* sorted(): insertion into an ascending sequence
RECURSIVE Insert(_, _)
Insert(x, seq) ==
    IF seq = << >> THEN <<x>>
    ELSE IF x <= Head(seq) THEN <<x>> \o seq
    ELSE <<Head(seq)>> \o Insert(x, Tail(seq))

RECURSIVE sorted(_)
sorted(seq) ==
    IF seq = << >> THEN << >> ELSE Insert(Head(seq), sorted(Tail(seq)))

\* [ts for ts in all_timestamps if ts not in processed_timestamps], sorted
new_timestamps(all, processed) ==
    sorted(SelectSeq(all, LAMBDA ts : ts \notin processed))

\* after_malformed: while a cycle runs, whether the cycle before it got a
\* malformed response.
IdleCycle ==
    [pc |-> "idle", processed |-> {}, all |-> << >>, new |-> << >>,
     idx |-> 1, resp |-> "-", log |-> << >>, after_malformed |-> FALSE,
     session |-> "closed", escaped |-> FALSE]

\* A malformed timestamp-list response: an HTTP error, a body that is not
\* JSON, the configured key missing, a value that is not a list.
Malformed(kind) ==
    kind \in {"http_error", "non_json", "object_no_key", "object_scalar"}

\* except Exception / finally: db.close()
TaskEnd(c) ==
    [c EXCEPT !.pc = "idle", !.session = "closed", !.escaped = FALSE,
              !.after_malformed = FALSE]

\* From SessionLocal() to the first pass of the loop, or to the return.
CycleStart ==
    /\ cyc.pc = "idle"
    /\ \E resp \in TimestampResponses :
        LET processed == get_processed_timestamps(rows)
            got == all_timestamps(resp)
            new == IF got.is = "list"
                   THEN new_timestamps(got.list, processed) ELSE << >>
            begun == [pc |-> "loop", processed |-> processed,
                      all |-> got.list, new |-> new, idx |-> 1,
                      resp |-> resp.kind, log |-> << >>,
                      after_malformed |-> Malformed(cyc.resp),
                      session |-> "open", escaped |-> FALSE]
        IN cyc' = IF new = << >> THEN TaskEnd(begun) ELSE begun
    /\ run' = [run EXCEPT !["sched"] = IdleRun]
    /\ UNCHANGED <<rows, tiles, call>>

\* for ts in new_timestamps: run_analysis_and_persist(ts, db), to the lookup
SchedAnalyzeCatchInLoop ==
    /\ cyc.pc = "loop"
    /\ run["sched"].pc # "commit"
    /\ \E a \in RunOutcomes[cyc.new[cyc.idx]] :
        LET ts == cyc.new[cyc.idx]
            r == Analyzed("sched", ts, a)
            logged == [cyc EXCEPT !.log = Append(@, <<"begin", ts>>)]
            skipped == [logged EXCEPT !.idx = @ + 1]
        IN /\ run' = [run EXCEPT !["sched"] = r]
           /\ cyc' = IF r.pc # "raised" THEN logged
                     ELSE IF skipped.idx > Len(skipped.new)
                     THEN TaskEnd(skipped) ELSE skipped
    /\ UNCHANGED <<rows, tiles, call>>

SchedAnalyze ==
    /\ cyc.pc = "loop"
    /\ run["sched"].pc # "commit"
    /\ \E a \in RunOutcomes[cyc.new[cyc.idx]] :
        LET ts == cyc.new[cyc.idx]
            r == Analyzed("sched", ts, a)
            logged == [cyc EXCEPT !.log = Append(@, <<"begin", ts>>)]
        IN /\ run' = [run EXCEPT !["sched"] = r]
           /\ cyc' = IF r.pc = "raised" THEN TaskEnd(logged) ELSE logged
    /\ UNCHANGED <<rows, tiles, call>>

\* ... from the commit to the next pass of the loop, or to the loop's end
SchedCommit ==
    /\ cyc.pc = "loop"
    /\ run["sched"].pc = "commit"
    /\ \E store_ok \in BOOLEAN :
        LET r == Committed("sched", store_ok)
            u == upsert_commit(rows, run["sched"].data, run["sched"].found,
                               store_ok)
            next == [cyc EXCEPT !.log = Append(@, <<"upsert", r.ts>>),
                                !.idx = @ + 1]
        IN /\ run' = [run EXCEPT !["sched"] = r]
           /\ rows' = u.table
           /\ cyc' = IF r.pc = "raised" THEN TaskEnd(cyc)
                     ELSE IF next.idx > Len(next.new) THEN TaskEnd(next)
                     ELSE next
    /\ UNCHANGED <<tiles, call>>

(***************************************************************************)
(* main.debug_analyze_by_timestamp, and a caller of                        *)
(* crud.upsert_analysis_result with an outcome of its own.                 *)
(***************************************************************************)
DebugAnalyze ==
    /\ run["debug"].pc # "commit"
    /\ \E ts \in Timestamps :
        \E a \in RunOutcomes[ts] :
            run' = [run EXCEPT !["debug"] = Analyzed("debug", ts, a)]
    /\ UNCHANGED <<rows, cyc, tiles, call>>

DirectInputs ==
    [timestamp : Timestamps, status : {"completed"},
     sea_blueness : {Some(60)}, cloud_coverage : {Some(20)},
     fields_set : {FieldNames}]

DirectUpsert ==
    /\ run["debug"].pc # "commit"
    /\ \E data \in DirectInputs :
        run' = [run EXCEPT !["debug"] =
                  [IdleRun EXCEPT !.pc = "commit", !.ts = data.timestamp,
                       !.via = "direct", !.data = data,
                       !.found = get_result_by_timestamp(rows, data.timestamp)
                                    # NoRow]]
    /\ UNCHANGED <<rows, cyc, tiles, call>>

DebugCommit ==
    /\ run["debug"].pc = "commit"
    /\ \E store_ok \in BOOLEAN :
        /\ run' = [run EXCEPT !["debug"] = Committed("debug", store_ok)]
        /\ rows' = upsert_commit(rows, run["debug"].data, run["debug"].found,
                                 store_ok).table
    /\ UNCHANGED <<cyc, tiles, call>>

(***************************************************************************)
(* One run of run_analysis_and_persist on a drawn tile grid and a drawn    *)
(* pattern of tile outcomes, the download written out tile by tile.        *)
(***************************************************************************)
\* no pure function under study
NoCall == [pc |-> "off"]

NotCalled(g) ==
    [stitched |-> LoopStart(g).stitched, downloaded_count |-> 0,
     attempts |-> LoopStart(g).attempts, ret |-> "not_called"]

OneByOne == [rows |-> 1, cols |-> 1]

NoTiles ==
    [pc |-> "off", grid |-> OneByOne,
     pattern |-> [s \in Slots(OneByOne) |-> "ok"],
     result |-> NotCalled(OneByOne)]

DrawnRun ==
    /\ tiles.pc = "drawn"
    /\ \E ts \in Timestamps, piped \in PipelineOutcomes :
        LET d == download_stitched_image(tiles.grid, tiles.pattern)
            a == Orchestrate(ts, d.ret, piped)
        IN /\ run' = [run EXCEPT !["debug"] = Analyzed("debug", ts, a)]
           /\ tiles' = [tiles EXCEPT
                          !.pc = "ran",
                          !.result = IF a.dl = "not_called" THEN @ ELSE d]
    /\ UNCHANGED <<rows, cyc, call>>

InitDownload ==
    /\ rows = EmptyBag
    /\ run = [p \in Procs |-> IdleRun]
    /\ cyc = IdleCycle
    /\ \E g \in Grids :
        \E pattern \in Patterns(g) :
            tiles = [pc |-> "drawn", grid |-> g, pattern |-> pattern,
                     result |-> NotCalled(g)]
    /\ call = NoCall

NextDownload == DrawnRun

SpecDownload == InitDownload /\ [][NextDownload]_vars

(***************************************************************************)
(* One call of processor.analyze_ocean_color on a drawn configuration, a   *)
(* drawn mask and a drawn K-Means result.                                  *)
(***************************************************************************)
NotClassified == Classified("-", << >>, -1, -1, -1, 0)

Classify ==
    /\ call.pc = "drawn"
    /\ call.fn = "analyze_ocean_color"
    /\ call' = [call EXCEPT
                  !.pc = "ran",
                  !.result = analyze_ocean_color(call.cfg, call.inp)]
    /\ UNCHANGED <<rows, run, cyc, tiles>>

InitClassify ==
    /\ rows = EmptyBag
    /\ run = [p \in Procs |-> IdleRun]
    /\ cyc = IdleCycle
    /\ tiles = NoTiles
    /\ \E cfg \in ClassifierConfigs :
        \E inp \in ClassifierInputs(cfg) :
            call = [pc |-> "drawn", fn |-> "analyze_ocean_color",
                    cfg |-> cfg, inp |-> inp, result |-> NotClassified]

NextClassify == Classify

SpecClassify == InitClassify /\ [][NextClassify]_vars

(***************************************************************************)
(* One call of geo_utils.create_ocean_mask on a drawn boundary document.   *)
(***************************************************************************)
BuildMask ==
    /\ call.pc = "drawn"
    /\ call.fn = "create_ocean_mask"
    /\ call' = [call EXCEPT !.pc = "ran",
                            !.result = ocean_mask(call.polygons)]
    /\ UNCHANGED <<rows, run, cyc, tiles>>

InitMask ==
    /\ rows = EmptyBag
    /\ run = [p \in Procs |-> IdleRun]
    /\ cyc = IdleCycle
    /\ tiles = NoTiles
    /\ \E polygons \in BoundaryDocuments :
        call = [pc |-> "drawn", fn |-> "create_ocean_mask",
                polygons |-> polygons, result |-> [px \in Pixels |-> 255]]

NextMask == BuildMask

SpecMask == InitMask /\ [][NextMask]_vars

Init ==
    /\ rows = EmptyBag
    /\ run = [p \in Procs |-> IdleRun]
    /\ cyc = IdleCycle
    /\ tiles = NoTiles
    /\ call = NoCall

Next ==
    \/ CycleStart
    \/ SchedAnalyze
    \/ SchedCommit
    \/ DebugAnalyze
    \/ DirectUpsert
    \/ DebugCommit

Spec == Init /\ [][Next]_vars

(***************************************************************************)
(* Properties.                                                             *)
(***************************************************************************)
\* the local hours of [NIGHT_END_HOUR, NIGHT_START_HOUR)
DayHours == NIGHT_END_HOUR .. (NIGHT_START_HOUR - 1)

\* caller p's step from its commit
Commits(p) == run[p].pc = "commit" /\ run'[p].pc # "commit"
\* ... that returned an outcome
CommitReturns(p) == run[p].pc = "commit" /\ run'[p].pc = "returned"

\* a step that starts a scheduled cycle
StartsCycle == cyc.pc = "idle" /\ cyc' # cyc

Elems(seq) == {seq[i] : i \in 1..Len(seq)}

\* C1: in run_analysis_and_persist, a timestamp whose local hour (UTC+8) is
\* outside [NIGHT_END_HOUR, NIGHT_START_HOUR) gets status night and neither
\* the download nor the image pipeline is called for that run; a timestamp
\* whose local hour is inside the interval never gets status night.
C1_NightGateBeforeDownload ==
    \A p \in Procs :
        run[p].via = "run" =>
            /\ LocalHour(run[p].ts) \notin DayHours =>
                /\ run[p].dl = "not_called"
                /\ run[p].reached = "-"
                /\ run[p].exc \notin {"UnidentifiedImageError", "OSError"}
                /\ run[p].pc = "commit" => run[p].data.status = "night"
                /\ run[p].pc = "returned" => run[p].outcome = "night"
            /\ LocalHour(run[p].ts) \in DayHours =>
                /\ run[p].dl # "not_called"
                /\ run[p].pc = "commit" => run[p].data.status # "night"
                /\ run[p].pc = "returned" => run[p].outcome # "night"

\* C1 witness: a run for the 16:00 timestamp returned night and left its
\* record, with no download and no pipeline call.
C1_Witness ==
    \E p \in Procs :
        /\ run[p].via = "run" /\ run[p].pc = "returned"
        /\ LocalHour(run[p].ts) = NIGHT_START_HOUR
        /\ run[p].outcome = "night" /\ run[p].dl = "not_called"
        /\ \E r \in RowsFor(rows, run[p].ts) : r.status = "night"

\* the tiles of the drawn pattern that succeeded
Succeeded == {s \in Slots(tiles.grid) : tiles.pattern[s] = "ok"}

\* C2: in download_stitched_image, over every tile grid and every pattern of
\* HTTP 200 / non-200 / network error, the loop is never aborted: every tile
\* is attempted exactly once, a failed tile's slot is black,
\* downloaded_count is the number of tiles that succeeded, and when that
\* number is positive the cropped mosaic is returned and the orchestrator
\* calls the image pipeline on it.
C2_FailedTilesTolerated ==
    (/\ tiles.pc = "ran"
     /\ tiles.result.ret # "not_called"
     /\ \A s \in Slots(tiles.grid) :
            tiles.pattern[s] \in {"ok", "non200", "neterr"})
    => /\ tiles.result.ret # "raised"
       /\ \A s \in Slots(tiles.grid) :
            /\ tiles.result.attempts[s] = 1
            /\ tiles.result.stitched[s] =
                 IF s \in Succeeded THEN "tile" ELSE "black"
       /\ tiles.result.downloaded_count = Cardinality(Succeeded)
       /\ Succeeded # {} =>
            /\ tiles.result.ret = "cropped"
            /\ run["debug"].dl = "cropped"
            /\ run["debug"].reached # "-"

\* C2 witness: the 2 x 2 grid whose tile (0, 0) fails and whose other three
\* tiles succeed: 3 of 4 downloaded, the mosaic cropped and piped.
C2_Witness ==
    /\ tiles.pc = "ran"
    /\ tiles.grid = [rows |-> 2, cols |-> 2]
    /\ tiles.pattern[<<0, 0>>] = "neterr"
    /\ Succeeded = Slots(tiles.grid) \ {<<0, 0>>}
    /\ tiles.result.downloaded_count = 3
    /\ tiles.result.stitched[<<0, 0>>] = "black"
    /\ tiles.result.ret = "cropped"
    /\ run["debug"].reached = "classify"

\* the store holds exactly one row for the timestamp, with these values
HoldsExactly(table, timestamp, status, sea_blueness, cloud_coverage) ==
    /\ RowCount(table, timestamp) = 1
    /\ \A r \in RowsFor(table, timestamp) :
        /\ r.status = status
        /\ r.sea_blueness = sea_blueness
        /\ r.cloud_coverage = cloud_coverage

\* C3: when zero tiles succeed the run reports download_failed, persists no
\* record for the timestamp, and the next scheduled cycle that lists the
\* timestamp processes it again.
C3_DownloadFailureLeavesNoRecord ==
    [][/\ \A p \in Procs :
            (CommitReturns(p) /\ run[p].via = "run" /\ run[p].dl = "None")
                => /\ run'[p].outcome = "download_failed"
                   /\ rows' = rows
       /\ (StartsCycle /\ cyc'.resp = "object_list") =>
            \A ts \in Elems(cyc'.all) :
                (\E r \in RowsFor(rows, ts) : r.status = "download_failed")
                    => ts \in Elems(cyc'.new)]_vars

\* C4: after an upsert of an outcome for a timestamp the store holds exactly
\* one record for it, and its status, sea_blueness and cloud_coverage are
\* those of that outcome (null where the outcome carries none).
C4_UpsertKeepsLatestOutcome ==
    [][\A p \in Procs :
        CommitReturns(p) =>
            HoldsExactly(rows', run[p].data.timestamp, run[p].data.status,
                         run[p].data.sea_blueness,
                         run[p].data.cloud_coverage)]_vars

\* C5: a scheduled cycle whose timestamp list contains a timestamp whose
\* record has status error processes that timestamp again.
C5_ErroredTimestampRetried ==
    [][(StartsCycle /\ cyc'.resp = "object_list") =>
        \A ts \in Elems(cyc'.all) :
            (\E r \in RowsFor(rows, ts) : r.status = "error")
                => ts \in Elems(cyc'.new)]_vars

\* C6: run_analysis_and_persist never raises: whatever a collaborator does,
\* the run returns an outcome.
C6_NoFaultLeavesOrchestrator ==
    \A p \in Procs : run[p].via = "run" => run[p].pc # "raised"

\* the stages inside the pipeline's try block
TryStages == {"upscale", "balance", "mask", "classify"}

\* C7: an exception raised in a stage of process_image_pipeline's try block
\* (upscaling, contrast normalization, mask construction, classification)
\* does not leave the pipeline; the pipeline's result is status error with
\* no numeric field, and the record the orchestrator persists for the
\* timestamp has status error and null sea_blueness and cloud_coverage.
C7_PipelineExceptionBecomesErrorRecord ==
    [][\A p \in Procs :
        /\ (run'[p].via = "run" /\ run'[p].threw \in TryStages) =>
            /\ run'[p].exc # "OSError"
            /\ run'[p].pc = "commit" =>
                /\ run'[p].data.status = "error"
                /\ run'[p].data.sea_blueness = None
                /\ run'[p].data.cloud_coverage = None
        /\ (CommitReturns(p) /\ run[p].via = "run"
                /\ run[p].threw \in TryStages) =>
            /\ run'[p].outcome = "error"
            /\ HoldsExactly(rows', run[p].ts, "error", None, None)]_vars

\* C7 witness: a run whose contrast normalization raised has returned error,
\* and the record of its timestamp is error with null numeric fields.
C7_Witness ==
    \E p \in Procs :
        /\ run[p].via = "run" /\ run[p].pc = "returned"
        /\ run[p].threw = "balance"
        /\ run[p].outcome = "error"
        /\ HoldsExactly(rows, run[p].ts, "error", None, None)

\* the ascending sequence of a set of timestamps
RECURSIVE Ascending(_)
Ascending(S) ==
    IF S = {} THEN << >>
    ELSE LET least == CHOOSE x \in S : \A y \in S : x <= y
         IN <<least>> \o Ascending(S \ {least})

\* one timestamp after the other: each begun, then upserted
RECURSIVE OneAtATime(_)
OneAtATime(seq) ==
    IF seq = << >> THEN << >>
    ELSE <<<<"begin", Head(seq)>>, <<"upsert", Head(seq)>>>>
            \o OneAtATime(Tail(seq))

IsPrefix(a, b) == Len(a) <= Len(b) /\ a = SubSeq(b, 1, Len(a))

\* C8: a scheduled cycle processes no timestamp of the processed set it read
\* at its start, and every listed timestamp outside that set exactly once,
\* in ascending order, one at a time (upserted before the next is begun).
C8_CycleProcessesNewTimestampsInOrder ==
    cyc.resp = "object_list" =>
        LET want == OneAtATime(Ascending(Elems(cyc.all) \ cyc.processed))
        IN /\ IsPrefix(cyc.log, want)
           /\ cyc.pc = "idle" => cyc.log = want

\* C9: a malformed timestamp-list response (HTTP error, non-JSON body, key
\* missing, value not a list) ends the cycle at once: no timestamp is
\* processed, no record is created or changed, the fault stays inside the
\* task, the session is closed and the task is ready for its next cycle.
C9_MalformedListEndsCycle ==
    [][(StartsCycle /\ cyc'.resp \in
            {"http_error", "non_json", "object_no_key", "object_scalar"}) =>
        /\ cyc'.pc = "idle"
        /\ cyc'.new = << >> /\ cyc'.log = << >>
        /\ run'["sched"].pc = "idle"
        /\ rows' = rows
        /\ ~cyc'.escaped
        /\ cyc'.session = "closed"]_vars

\* C9 witness: the cycle after a malformed response has begun a timestamp.
C9_Witness ==
    /\ cyc.after_malformed
    /\ cyc.pc = "loop"
    /\ cyc.log # << >>
    /\ run["sched"].pc = "commit"

\* C10: with the boundary file missing, create_ocean_mask fails with
\* FileNotFoundError, the pipeline stops at the mask stage (the classifier
\* is not called), the run's result is error, and the record persisted for
\* the timestamp carries no numeric result.
C10_MissingBoundaryIsFatal ==
    [][/\ create_ocean_mask(FALSE) = "FileNotFoundError"
       /\ \A p \in Procs :
        /\ (run'[p].via = "run" /\ run'[p].boundary = "missing") =>
            /\ run'[p].threw = "mask"
            /\ run'[p].reached = "mask"
            /\ run'[p].pc = "commit" =>
                /\ run'[p].data.status = "error"
                /\ run'[p].data.sea_blueness = None
                /\ run'[p].data.cloud_coverage = None
        /\ (CommitReturns(p) /\ run[p].via = "run"
                /\ run[p].boundary = "missing") =>
            HoldsExactly(rows', run[p].ts, "error", None, None)]_vars

\* C10 witness: a run that found the boundary file missing has stopped at
\* the mask stage and returned error, and the record of its timestamp is
\* error with null numeric fields.
C10_Witness ==
    \E p \in Procs :
        /\ run[p].via = "run" /\ run[p].pc = "returned"
        /\ run[p].boundary = "missing"
        /\ run[p].reached = "mask"
        /\ run[p].outcome = "error"
        /\ HoldsExactly(rows, run[p].ts, "error", None, None)

\* the call of analyze_ocean_color has returned status completed
Completed ==
    /\ call.pc = "ran"
    /\ call.fn = "analyze_ocean_color"
    /\ call.result.exc = "-"
    /\ call.result.ret.status = "completed"

\* ... with the three clusters of the clustering strategy
CompletedOfThree == Completed /\ call.cfg.K_MEANS_CLUSTERS = Some(3)

\* C11: for every classification of three clusters that returns completed,
\* whatever labels the clusters got, cloudPixels + bluePixels + yellowPixels
\* is exactly the number of ocean pixels classified.
C11_PartitionInvariant ==
    CompletedOfThree =>
        call.result.ret.cloudPixels + call.result.ret.bluePixels
            + call.result.ret.yellowPixels = call.result.total

SameRatio(a, b) == a.num * b.den = b.num * a.den
Exceeds(a, b) == a.num * b.den > b.num * a.den

\* C12: for every completed classification of three clusters, seaBlueness
\* is bluePixels over the total number of ocean pixels, the denominator of
\* bluePercentage, yellowPercentage and cloudCoverage.
C12_SeaBluenessOverAllOceanPixels ==
    CompletedOfThree =>
        LET ret == call.result.ret
            total == call.result.total
        IN /\ SameRatio(ret.seaBlueness, Ratio(ret.bluePixels, total))
           /\ SameRatio(ret.bluePercentage, Ratio(ret.bluePixels, total))
           /\ SameRatio(ret.yellowPercentage, Ratio(ret.yellowPixels, total))
           /\ SameRatio(ret.cloudCoverage, Ratio(ret.cloudPixels, total))

\* C13: a classification whose cloudCoverage exceeds
\* CLOUD_COVERAGE_THRESHOLD ends with status thick_cloud and carries no
\* populated seaBlueness.
C13_ThickCloudShortCircuit ==
    (/\ call.pc = "ran" /\ call.fn = "analyze_ocean_color"
     /\ call.result.exc = "-"
     /\ call.result.total > 0
     /\ Exceeds(call.result.ret.cloudCoverage, CLOUD_COVERAGE_THRESHOLD))
    => /\ call.result.ret.status = "thick_cloud"
       /\ "seaBlueness" \notin DOMAIN call.result.ret

\* no_data, or the literal the code spells it with
NoDataStatuses == {"no_data", "wu-shu-ju"}

\* C14: when the ocean mask selects no pixel, or the ocean-restricted image
\* is entirely black, analyze_ocean_color returns status no_data before any
\* classification.
C14_NoDataCheck ==
    (/\ call.pc = "ran" /\ call.fn = "analyze_ocean_color"
     /\ (~call.inp.mask_nonzero \/ call.inp.black))
    => /\ call.result.exc = "-"
       /\ call.result.ret.status \in NoDataStatuses
       /\ call.result.cloud_label = -1
       /\ call.result.blue_label = -1
       /\ call.result.yellow_label = -1

\* the statuses of the outcome contract
OutcomeStatuses ==
    {"night", "download_failed", "no_data", "thick_cloud",
     "insufficient_pixels", "completed", "error"}

\* C15: the status of every outcome run_analysis_and_persist hands to the
\* store or returns, and of every persisted record, is one of night,
\* download_failed, no_data, thick_cloud, insufficient_pixels, completed,
\* error.
C15_StatusesAreOfTheContract ==
    /\ \A r \in BagToSet(rows) : r.status \in OutcomeStatuses
    /\ \A p \in Procs :
        /\ run[p].pc = "commit" => run[p].data.status \in OutcomeStatuses
        /\ run[p].pc = "returned" => run[p].outcome \in OutcomeStatuses

\* C15 witness: after a scheduled cycle and a manual re-run the store holds
\* a night record and an error record, the latter from a run whose pipeline
\* got as far as the classifier call.
C15_Witness ==
    /\ \E r \in BagToSet(rows) : r.status = "night"
    /\ \E r \in BagToSet(rows) : r.status = "error"
    /\ cyc.log # << >>
    /\ run["debug"].via = "run" /\ run["debug"].pc = "returned"
    /\ run["debug"].reached = "classify"
    /\ run["debug"].outcome = "error"

\* C16: under every interleaving of the lookups and commits of the
\* scheduled cycle's and the debug endpoint's upserts, the store never holds
\* more than one row for a timestamp.
C16_AtMostOneRowPerTimestamp ==
    \A ts \in Timestamps : RowCount(rows, ts) <= 1

\* C16 witness: both callers looked the same timestamp up before either
\* committed; the first commit inserted the row, the second insert was
\* rejected, and the store holds one row.
C16_Witness ==
    /\ run["sched"].via = "run" /\ run["debug"].via = "run"
    /\ run["sched"].ts = run["debug"].ts
    /\ run["sched"].pc = "returned"
    /\ run["debug"].pc = "raised"
    /\ run["debug"].exc = "IntegrityError"
    /\ RowCount(rows, run["debug"].ts) = 1

\* the points of the bounds' graticule
GeoPoints == Lons \X Lats
PixelOf(pt) == latlon_to_final_pixel(pt[2], pt[1])
InRaster(pt) == PixelOf(pt) \in Pixels

StrictlyWithin(pt, r) ==
    r.w < pt[1] /\ pt[1] < r.e /\ r.s < pt[2] /\ pt[2] < r.n
Within(pt, r) ==
    r.w <= pt[1] /\ pt[1] <= r.e /\ r.s <= pt[2] /\ pt[2] <= r.n

\* land: inside the outer ring and in no hole
StrictlyInsideLand(pt, polygon) ==
    /\ StrictlyWithin(pt, polygon[1])
    /\ \A i \in 2..Len(polygon) : ~Within(pt, polygon[i])
OutsideLand(pt, polygon) ==
    \/ ~Within(pt, polygon[1])
    \/ \E i \in 2..Len(polygon) : StrictlyWithin(pt, polygon[i])

\* the pixel holds a point of the polygon's land
LandInPixel(px, polygon) ==
    \E pt \in GeoPoints : PixelOf(pt) = px /\ ~OutsideLand(pt, polygon)

\* C17: every pixel of the mask create_ocean_mask builds is 0 or 255; the
\* pixel of a point strictly inside a land polygon is 0; the pixel of a
\* point of the raster outside all land polygons (a point inside a hole
\* included) is 255, read at the raster's resolution: for a pixel that
\* holds no point of any land polygon.
C17_MaskInvariant ==
    (call.pc = "ran" /\ call.fn = "create_ocean_mask") =>
        /\ \A px \in Pixels : call.result[px] \in {0, 255}
        /\ \A pt \in GeoPoints :
            InRaster(pt) =>
                /\ (\E i \in 1..Len(call.polygons) :
                        StrictlyInsideLand(pt, call.polygons[i]))
                    => call.result[PixelOf(pt)] = 0
                /\ (\A i \in 1..Len(call.polygons) :
                        /\ OutsideLand(pt, call.polygons[i])
                        /\ ~LandInPixel(PixelOf(pt), call.polygons[i]))
                    => call.result[PixelOf(pt)] = 255

\* the clusters of the call, and the two tests on a cluster's center
Clusters == 0..(call.cfg.K_MEANS_CLUSTERS[1] - 1)
PassesCloudTest(i) ==
    /\ call.inp.centers[i + 1][2] < call.cfg.CLOUD_CLUSTER_SATURATION_MAX[1]
    /\ call.inp.centers[i + 1][3] > call.cfg.CLOUD_CLUSTER_VALUE_MIN[1]
PassesHueTest(i) ==
    call.inp.centers[i + 1][1] > call.cfg.BLUE_CLUSTER_HUE_THRESHOLD[1]

\* the least of a set of cluster indices, -1 when it is empty
LowestOf(S) == IF S = {} THEN -1 ELSE CHOOSE i \in S : \A j \in S : i <= j

\* C18: in every classification that gets to the labelling, the cloud label
\* is the lowest-index cluster passing the cloud test (or none), the blue
\* label the lowest-index cluster among the remaining ones passing the hue
\* test (or none), the yellow label is assigned only when exactly one
\* cluster remains unlabeled (and is that cluster), and the assigned
\* labels are pairwise distinct.
C18_LabellingTieBreak ==
    Completed =>
        LET cloud == call.result.cloud_label
            blue == call.result.blue_label
            yellow == call.result.yellow_label
            unlabeled == Clusters \ {cloud, blue}
        IN /\ cloud = LowestOf({i \in Clusters : PassesCloudTest(i)})
           /\ blue = LowestOf({i \in Clusters \ {cloud} : PassesHueTest(i)})
           /\ yellow # -1 => unlabeled = {yellow}
           /\ Cardinality(unlabeled) = 1 => yellow \in unlabeled
           /\ cloud # -1 => cloud \notin {blue, yellow}
           /\ blue # -1 => blue # yellow

\* three clusters, two of which pass the cloud test and two the hue test
\* (the haze center passes both): the lower index is taken each time and
\* the third cluster is yellow
C18_Witness ==
    /\ CompletedOfThree
    /\ Cardinality({i \in Clusters : PassesCloudTest(i)}) = 2
    /\ PassesCloudTest(1) /\ PassesCloudTest(2)
    /\ PassesHueTest(1) /\ PassesHueTest(2)
    /\ call.result.cloud_label = 1
    /\ call.result.blue_label = 2
    /\ call.result.yellow_label = 0

\* a run on a daytime timestamp with at least one tile downloaded and the
\* boundary file present, whose pipeline call got to the classifier
ReachedClassifier(r) ==
    /\ r.via = "run"
    /\ ~is_night(r.ts)
    /\ r.dl = "cropped"
    /\ r.boundary = "present"
    /\ r.reached = "classify"

\* C19: for such a run the classifier accepts the pipeline's call (its
\* argument list and the configuration constants it reads are defined): the
\* call does not raise, and the status the run persists is the classifier's,
\* never error.
C19_ClassifierCallAccepted ==
    \A p \in Procs :
        ReachedClassifier(run[p]) =>
            /\ run[p].threw # "classify"
            /\ run[p].pc = "commit" => run[p].data.status # "error"
            /\ run[p].pc = "returned" => run[p].outcome # "error"

\* a scheduled cycle has stopped at a raise (until the next cycle starts)
StoppedAtRaise == cyc.pc = "idle" /\ run["sched"].pc = "raised"
\* the step in which a run of the cycle raises
RaisesInCycle == cyc.pc = "loop" /\ run'["sched"].pc = "raised"

\* the timestamps of the cycle's list after the position it is at
After(c) ==
    {c.new[j] : j \in (c.idx + 1)..Len(c.new)} \ {c.new[j] : j \in 1..c.idx}
\* the timestamps the cycle began, and those it upserted
Begun(c) == {c.log[i][2] : i \in 1..Len(c.log)}
Upserted(c) ==
    {c.log[i][2] : i \in {j \in 1..Len(c.log) : c.log[j][1] = "upsert"}}

\* the exception stayed inside the task, the session is closed, no later
\* timestamp was begun, every record upserted in the cycle is there
StoppedCleanly(c, table) ==
    /\ ~c.escaped
    /\ c.session = "closed"
    /\ After(c) \cap Begun(c) = {}
    /\ \A ts \in Upserted(c) : RowCount(table, ts) = 1

\* C20 as stated: when a run of a scheduled cycle raises, the cycle is
\* over, the exception has not left the task, the session is closed, the timestamps after the
\* raising one were not processed and have no record, and the records
\* upserted earlier in the cycle are kept.
C20_LaterTimestampsHaveNoRecord ==
    [][RaisesInCycle =>
        /\ cyc'.pc = "idle"
        /\ StoppedCleanly(cyc', rows')
        /\ \A ts \in After(cyc') : RowCount(rows', ts) = 0]_vars

\* C20, amended: a raise of a run stops the cycle at that timestamp, the
\* exception stays inside scheduled_analysis_task, the session is closed,
\* the raising step changes no record, the later timestamps are not begun
\* and the cycle writes no record for them (they have none unless the debug
\* endpoint stored one), the records upserted earlier are kept; the next
\* cycle whose list carries a later timestamp that has no record takes it
\* into its new timestamps.
C20_CycleStopsAtRaise ==
    [][/\ RaisesInCycle =>
            /\ cyc'.pc = "idle"
            /\ cyc'.idx = cyc.idx
            /\ rows' = rows
            /\ StoppedCleanly(cyc', rows')
       /\ StoppedAtRaise' =>
            /\ StoppedCleanly(cyc', rows')
            /\ run'["debug"].pc = "idle" =>
                \A ts \in After(cyc') : RowCount(rows', ts) = 0
       /\ cyc.pc = "loop" =>
            \A ts \in After(cyc) :
                RowsFor(rows', ts) # RowsFor(rows, ts) =>
                    /\ run["debug"].pc = "commit"
                    /\ run["debug"].ts = ts
                    /\ run'["debug"].pc = "returned"
       /\ (StoppedAtRaise /\ run'["sched"].pc = "idle"
                /\ cyc'.resp = "object_list") =>
            \A ts \in After(cyc) \cap Elems(cyc'.all) :
                RowCount(rows, ts) = 0 => ts \in Elems(cyc'.new)]_vars

\* the first of two new timestamps raised: the cycle is over, the second
\* was not begun and has no record
C20_Witness ==
    /\ StoppedAtRaise
    /\ Len(cyc.new) = 2 /\ cyc.idx = 1
    /\ After(cyc) = {cyc.new[2]}
    /\ cyc.log = <<<<"begin", cyc.new[1]>>>>
    /\ cyc.session = "closed"
    /\ RowCount(rows, cyc.new[2]) = 0

\* the records of one timestamp, with their number
RecordsOf(table, ts) == [r \in RowsFor(table, ts) |-> table[r]]

\* caller p's step of run_analysis_and_persist before the upsert
Analyzes(p) == run[p].pc # "commit" /\ run'[p] # run[p]

\* C21: run_analysis_and_persist(t), and the upsert it ends with, creates
\* or changes only the record whose timestamp is t: the records of every
\* other timestamp and their number are unchanged, whatever the status; the
\* part before the upsert, and a run that raises, change no record at all.
C21_FrameOfPersistence ==
    [][\A p \in Procs :
        /\ Analyzes(p) => rows' = rows
        /\ Commits(p) =>
            /\ \A ts \in Timestamps \ {run[p].ts} :
                RecordsOf(rows', ts) = RecordsOf(rows, ts)
            /\ get_processed_timestamps(rows') \subseteq
                get_processed_timestamps(rows) \cup {run[p].ts}
            /\ run'[p].pc = "raised" => rows' = rows
            /\ run'[p].pc = "returned" =>
                /\ RowCount(rows', run[p].ts) = 1
                /\ get_result_by_timestamp(rows', run[p].ts).status
                    = run[p].data.status]_vars

\* a run of one timestamp has updated that timestamp's record to error
\* while the other timestamp's record, stored as completed, is there as it
\* was
C21_Witness ==
    \E p \in Procs : \E other \in Timestamps \ {run[p].ts} :
        /\ run[p].via = "run" /\ run[p].pc = "returned"
        /\ run[p].outcome = "error"
        /\ HoldsExactly(rows, run[p].ts, "error", None, None)
        /\ HoldsExactly(rows, other, "completed", Some(60), Some(20))

====
